---- MODULE Spec2Model ----
(***************************************************************************)
(* Planning Poker: the room session kept by the two socket.io servers.     *)
(*   part_001  immediate reveal, deck {1,2,3,5,10}, start needs 2 players   *)
(*   part_002  reveal deferred by setTimeout, Fibonacci-like deck           *)
(* One behaviour runs one server; Init picks which.  Every handler runs to  *)
(* completion (node's single-threaded event loop), so a handler is one      *)
(* action.  `lastEvent` records the event whose handler ran last (its name  *)
(* and whether its sender was a participant, and had a vote recorded, when  *)
(* the handler started) and `emitted` holds the events that run sent.       *)
(* `clients` is the React state of the client (part_000) behind each open   *)
(* socket once the events sent so far have reached it, in the order sent.   *)
(* The servers never read it; a behaviour follows it if `withClients`.      *)
(***************************************************************************)
EXTENDS Integers, Sequences, FiniteSets, TLC

VARIABLES server, nextSocket, connected, room, players, votes, gamePhase,
          pendingTimers, lastEvent, emitted, withClients, clients

vars == <<server, nextSocket, connected, room, players, votes, gamePhase,
          pendingTimers, lastEvent, emitted, withClients, clients>>

(***************************************************************************)
(* Bounds                                                                   *)
(***************************************************************************)
\* connections ever opened in one behaviour (socket ids are never reused)
MaxSockets == 2
\* reveal callbacks pending at one time
MaxTimers == 2

Servers == {"part_001", "part_002"}
SocketIds == 1..MaxSockets

(***************************************************************************)
(* JavaScript values that arrive as event arguments: a type tag and a       *)
(* payload.  A name payload is a sequence of characters, a vote payload an  *)
(* integer (for a string argument: the number its digits spell).            *)
(***************************************************************************)
Str(s) == [t |-> "string", v |-> s]
Num(n) == [t |-> "number", v |-> n]
Undefined == [t |-> "undefined", v |-> <<>>]

\* arguments tried for join-game
NameInputs == {Undefined, Str(<<>>), Str(<<" ">>), Str(<<" ", "a">>)}
\* arguments tried for submit-vote: in both decks, in one deck only (so outside
\* the other server's), not a number
VoteInputs == {Num(3), Num(8), Num(10), [t |-> "string", v |-> 3]}

\* String.prototype.trim
RECURSIVE TrimLeft(_)
TrimLeft(s) == IF s # <<>> /\ Head(s) = " " THEN TrimLeft(Tail(s)) ELSE s
RECURSIVE TrimRight(_)
TrimRight(s) ==
    IF s # <<>> /\ s[Len(s)] = " " THEN TrimRight(SubSeq(s, 1, Len(s) - 1)) ELSE s
trim(s) == TrimRight(TrimLeft(s))

\* !playerName : undefined and the empty string are falsy
Falsy(x) == x.t = "undefined" \/ (x.t = "string" /\ x.v = <<>>)

(***************************************************************************)
(* Map<K,V> as a function from its keys to their values: has, get, set,     *)
(* delete, clear and size are exact.  A Map iterates in insertion order; no *)
(* handler branches on that order, so Array.from(map.values()) and          *)
(* Array.from(map.entries()) are modelled as the set of the array's         *)
(* elements (which are pairwise distinct: each carries its key).            *)
(***************************************************************************)
EmptyMap == <<>>
MapKeys(m) == DOMAIN m
MapHas(m, k) == k \in DOMAIN m
MapGet(m, k) == m[k]
MapSet(m, k, x) == [j \in (DOMAIN m) \cup {k} |-> IF j = k THEN x ELSE m[j]]
MapDelete(m, k) == [j \in (DOMAIN m) \ {k} |-> m[j]]
MapValues(m) == {m[k] : k \in DOMAIN m}
MapEntries(m) == {<<k, m[k]>> : k \in DOMAIN m}
MapSize(m) == Cardinality(DOMAIN m)

(***************************************************************************)
(* Records of the source                                                    *)
(***************************************************************************)
Player(id, name) == [id |-> id, name |-> name, connected |-> TRUE]
Vote(id, name, v) == [playerId |-> id, playerName |-> name, vote |-> v]

Deck1 == {1, 2, 3, 5, 10}
Deck2 == {1, 2, 3, 5, 8, 13, 21, 34, 55, 89}

\* io.to(roomId).emit(name, data): sent to the sockets `to` that are in the room
Emit(to, name, data) == [name |-> name, to |-> to, data |-> data]
NoData == [none |-> TRUE]

(***************************************************************************)
(* Result computation: sum / length * 10, Math.round, / 10.                 *)
(* The quotient is kept exact (numerator over denominator) and the average  *)
(* in tenths; for the vote counts and deck values in range the double       *)
(* arithmetic of the source rounds to the same tenth.                       *)
(***************************************************************************)
\* votes.reduce((acc, v) => acc + v.vote, 0)
RECURSIVE reduceSum(_)
reduceSum(vs) ==
    IF vs = {} THEN 0
    ELSE LET v == CHOOSE x \in vs : TRUE IN v.vote + reduceSum(vs \ {v})

\* Math.round of the fraction n/d (d > 0): the nearest integer, a tie goes up
MathRound(n, d) ==
    LET floor == n \div d
        rest  == n % d
    IN  IF 2 * rest >= d THEN floor + 1 ELSE floor

\* Math.round((sum / votes.length) * 10) / 10, in tenths; 0/0 is NaN and stays NaN
Average(vs) ==
    LET sum    == reduceSum(vs)
        length == Cardinality(vs)
    IN  IF length = 0
        THEN [nan |-> TRUE, tenths |-> 0]
        ELSE [nan |-> FALSE, tenths |-> MathRound(sum * 10, length)]

VotingResult(vs) == [votes |-> vs, average |-> Average(vs)]

\* the record kept in lastEvent; socket ids start at 1, so 0 stands for "no
\* sending socket" (process start, timer callback)
Handled(name, s) ==
    [name |-> name, wasPlayer |-> s \in DOMAIN players, hadVote |-> s \in DOMAIN votes]

(***************************************************************************)
(* part_000: the client.  Of its state the model keeps the two fields of    *)
(* gameState the component reads (players, gamePhase) and voteCount.        *)
(***************************************************************************)
\* useState initial values
InitialClient ==
    [gameState |-> [players |-> {}, gamePhase |-> "waiting"],
     voteCount |-> [votedCount |-> 0, totalPlayers |-> 0]]

\* newSocket.on(...): the state of a client after it handles one event; the
\* client has no handler for start-countdown, and voting-started only resets
\* selectedCard and results
ClientReceive(c, ev) ==
    CASE ev.name = "game-state-update" -> [c EXCEPT !.gameState =
                                              [players   |-> ev.data.players,
                                               gamePhase |-> ev.data.gamePhase]]
      [] ev.name = "vote-count-update" -> [c EXCEPT !.voteCount = ev.data]
      [] ev.name = "voting-complete"   -> [c EXCEPT !.gameState.gamePhase = "results"]
      [] OTHER                         -> c

\* the events of one handler run reach socket s, if it was in the room when
\* each was sent, in the order sent
RECURSIVE ClientReceiveAll(_, _, _)
ClientReceiveAll(c, s, evs) ==
    IF evs = <<>> THEN c
    ELSE ClientReceiveAll(IF s \in Head(evs).to THEN ClientReceive(c, Head(evs)) ELSE c,
                          s, Tail(evs))

\* every open socket has its client; a closed socket's client is gone
Delivered ==
    /\ withClients' = withClients
    /\ clients' = IF withClients
                  THEN [s \in connected' |->
                           ClientReceiveAll(IF s \in DOMAIN clients THEN clients[s]
                                            ELSE InitialClient,
                                            s, emitted')]
                  ELSE clients

(***************************************************************************)
(* Init: the process has started, nobody has connected.                     *)
(***************************************************************************)
Init ==
    /\ server \in Servers
    /\ nextSocket = 1
    /\ connected = {}
    /\ room = {}
    /\ players = EmptyMap
    /\ votes = EmptyMap
    /\ gamePhase = "waiting"
    /\ pendingTimers = 0
    /\ lastEvent = Handled("none", 0)
    /\ emitted = <<>>
    /\ withClients = FALSE
    /\ clients = <<>>

\* the same start, with the clients followed
InitWithClients ==
    /\ server \in Servers
    /\ nextSocket = 1
    /\ connected = {}
    /\ room = {}
    /\ players = EmptyMap
    /\ votes = EmptyMap
    /\ gamePhase = "waiting"
    /\ pendingTimers = 0
    /\ lastEvent = Handled("none", 0)
    /\ emitted = <<>>
    /\ withClients = TRUE
    /\ clients = <<>>

\* io.on('connection'): a new socket with a fresh id; handlers registered
Connection ==
    /\ nextSocket <= MaxSockets
    /\ lastEvent' = Handled("connection", nextSocket)
    /\ connected' = connected \cup {nextSocket}
    /\ nextSocket' = nextSocket + 1
    /\ emitted' = <<>>
    /\ UNCHANGED <<server, room, players, votes, gamePhase, pendingTimers>>
    /\ Delivered

(***************************************************************************)
(* part_001: immediate reveal                                               *)
(***************************************************************************)
\* the snapshot carries the votes only in the results phase
\* slip: the snapshot carries the votes in every phase
broadcastGameState_Unmasked(to, ps, vs, phase) ==
    Emit(to, "game-state-update",
         [players   |-> MapValues(ps),
          gamePhase |-> phase,
          votes     |-> [null |-> FALSE, entries |-> MapEntries(vs)]])

broadcastGameState(to, ps, vs, phase) ==
    Emit(to, "game-state-update",
         [players   |-> MapValues(ps),
          gamePhase |-> phase,
          votes     |-> IF phase = "results"
                        THEN [null |-> FALSE, entries |-> MapEntries(vs)]
                        ELSE [null |-> TRUE, entries |-> {}]])

\* slip: the snapshot goes to the room before the joiner enters it
JoinGame1_BroadcastBeforeJoin(s, playerName) ==
    /\ server = "part_001"
    /\ s \in connected
    /\ lastEvent' = Handled("join-game", s)
    /\ IF Falsy(playerName) \/ playerName.t # "string"
       THEN /\ emitted' = <<>>
            /\ UNCHANGED <<room, players>>
       ELSE /\ players' = MapSet(players, s, Player(s, trim(playerName.v)))
            /\ room' = room \cup {s}
            /\ emitted' = <<broadcastGameState(room, players', votes, gamePhase)>>
    /\ UNCHANGED <<server, nextSocket, connected, votes, gamePhase,
                   pendingTimers>>
    /\ Delivered

JoinGame1(s, playerName) ==
    /\ server = "part_001"
    /\ s \in connected
    /\ lastEvent' = Handled("join-game", s)
    /\ IF Falsy(playerName) \/ playerName.t # "string"
       THEN /\ emitted' = <<>>
            /\ UNCHANGED <<room, players>>
       ELSE /\ players' = MapSet(players, s, Player(s, trim(playerName.v)))
            /\ room' = room \cup {s}
            /\ emitted' = <<broadcastGameState(room', players', votes, gamePhase)>>
    /\ UNCHANGED <<server, nextSocket, connected, votes, gamePhase,
                   pendingTimers>>
    /\ Delivered

\* slip: a new round starts over the votes of the round before
StartVoting1_KeepsVotes(s) ==
    /\ server = "part_001"
    /\ s \in connected
    /\ lastEvent' = Handled("start-voting", s)
    /\ IF MapSize(players) >= 2
       THEN /\ gamePhase' = "voting"
            /\ emitted' = <<Emit(room, "voting-started", NoData),
                            broadcastGameState(room, players, votes, gamePhase')>>
            /\ UNCHANGED votes
       ELSE /\ emitted' = <<>>
            /\ UNCHANGED <<gamePhase, votes>>
    /\ UNCHANGED <<server, nextSocket, connected, room, players,
                   pendingTimers>>
    /\ Delivered

StartVoting1(s) ==
    /\ server = "part_001"
    /\ s \in connected
    /\ lastEvent' = Handled("start-voting", s)
    /\ IF MapSize(players) >= 2
       THEN /\ gamePhase' = "voting"
            /\ votes' = EmptyMap
            /\ emitted' = <<Emit(room, "voting-started", NoData),
                            broadcastGameState(room, players, votes', gamePhase')>>
       ELSE /\ emitted' = <<>>
            /\ UNCHANGED <<gamePhase, votes>>
    /\ UNCHANGED <<server, nextSocket, connected, room, players,
                   pendingTimers>>
    /\ Delivered

\* slip: the deck test is dropped, any number is taken
ValidVote1_AnyNumber(vote) == vote.t = "number"

ValidVote1(vote) == vote.t = "number" /\ vote.v \in Deck1

\* the guard of the recording branch
Accepts1(s, vote) ==
    /\ ValidVote1(vote)
    /\ gamePhase = "voting"
    /\ MapHas(players, s)

\* slip: any recorded vote completes the round
AllVoted1_AnyVote(vs, ps) == MapSize(vs) >= 1

\* votes.size === players.size, read after the vote is recorded
AllVoted1(vs, ps) == MapSize(vs) = MapSize(ps)

\* slip: the progress is counted before the vote is recorded
SubmitVote1_CountsBeforeRecording(s, vote) ==
    /\ server = "part_001"
    /\ s \in connected
    /\ lastEvent' = Handled("submit-vote", s)
    /\ IF ~Accepts1(s, vote)
       THEN /\ emitted' = <<>>
            /\ UNCHANGED <<votes, gamePhase>>
       ELSE LET player   == MapGet(players, s)
                voteData == Vote(s, player.name, vote.v)
                newVotes == MapSet(votes, s, voteData)
                update   == Emit(room, "vote-count-update",
                                 [votedCount   |-> MapSize(votes),
                                  totalPlayers |-> MapSize(players)])
            IN  /\ votes' = newVotes
                /\ IF AllVoted1(newVotes, players)
                   THEN /\ gamePhase' = "results"
                        /\ emitted' = <<update,
                                        Emit(room, "voting-complete",
                                             VotingResult(MapValues(newVotes)))>>
                   ELSE /\ gamePhase' = gamePhase
                        /\ emitted' = <<update>>
    /\ UNCHANGED <<server, nextSocket, connected, room, players,
                   pendingTimers>>
    /\ Delivered

\* slip: the result is built from the votes as they were before this one
SubmitVote1_RevealsEarlierVotes(s, vote) ==
    /\ server = "part_001"
    /\ s \in connected
    /\ lastEvent' = Handled("submit-vote", s)
    /\ IF ~Accepts1(s, vote)
       THEN /\ emitted' = <<>>
            /\ UNCHANGED <<votes, gamePhase>>
       ELSE LET player   == MapGet(players, s)
                voteData == Vote(s, player.name, vote.v)
                newVotes == MapSet(votes, s, voteData)
                update   == Emit(room, "vote-count-update",
                                 [votedCount   |-> MapSize(newVotes),
                                  totalPlayers |-> MapSize(players)])
            IN  /\ votes' = newVotes
                /\ IF AllVoted1(newVotes, players)
                   THEN /\ gamePhase' = "results"
                        /\ emitted' = <<update,
                                        Emit(room, "voting-complete",
                                             VotingResult(MapValues(votes)))>>
                   ELSE /\ gamePhase' = gamePhase
                        /\ emitted' = <<update>>
    /\ UNCHANGED <<server, nextSocket, connected, room, players,
                   pendingTimers>>
    /\ Delivered

SubmitVote1(s, vote) ==
    /\ server = "part_001"
    /\ s \in connected
    /\ lastEvent' = Handled("submit-vote", s)
    /\ IF ~Accepts1(s, vote)
       THEN /\ emitted' = <<>>
            /\ UNCHANGED <<votes, gamePhase>>
       ELSE LET player   == MapGet(players, s)
                voteData == Vote(s, player.name, vote.v)
                newVotes == MapSet(votes, s, voteData)
                update   == Emit(room, "vote-count-update",
                                 [votedCount   |-> MapSize(newVotes),
                                  totalPlayers |-> MapSize(players)])
            IN  /\ votes' = newVotes
                /\ IF AllVoted1(newVotes, players)
                   THEN /\ gamePhase' = "results"
                        /\ emitted' = <<update,
                                        Emit(room, "voting-complete",
                                             VotingResult(MapValues(newVotes)))>>
                   ELSE /\ gamePhase' = gamePhase
                        /\ emitted' = <<update>>
    /\ UNCHANGED <<server, nextSocket, connected, room, players,
                   pendingTimers>>
    /\ Delivered

\* slip: the snapshot of the new round is not sent
NextRound1_Silent(s) ==
    /\ server = "part_001"
    /\ s \in connected
    /\ lastEvent' = Handled("next-round", s)
    /\ gamePhase' = "waiting"
    /\ votes' = EmptyMap
    /\ emitted' = <<>>
    /\ UNCHANGED <<server, nextSocket, connected, room, players,
                   pendingTimers>>
    /\ Delivered

NextRound1(s) ==
    /\ server = "part_001"
    /\ s \in connected
    /\ lastEvent' = Handled("next-round", s)
    /\ gamePhase' = "waiting"
    /\ votes' = EmptyMap
    /\ emitted' = <<broadcastGameState(room, players, votes', gamePhase')>>
    /\ UNCHANGED <<server, nextSocket, connected, room, players,
                   pendingTimers>>
    /\ Delivered

\* slip: the leaver's vote is not deleted
Disconnect1_KeepsVote(s) ==
    /\ server = "part_001"
    /\ s \in connected
    /\ lastEvent' = Handled("disconnect", s)
    /\ connected' = connected \ {s}
    /\ room' = room \ {s}
    /\ IF MapHas(players, s)
       THEN /\ players' = MapDelete(players, s)
            /\ votes' = votes
            /\ emitted' = <<broadcastGameState(room', players', votes', gamePhase)>>
       ELSE /\ emitted' = <<>>
            /\ UNCHANGED <<players, votes>>
    /\ UNCHANGED <<server, nextSocket, gamePhase, pendingTimers>>
    /\ Delivered

\* the socket has closed and left its rooms when 'disconnect' is delivered
Disconnect1(s) ==
    /\ server = "part_001"
    /\ s \in connected
    /\ lastEvent' = Handled("disconnect", s)
    /\ connected' = connected \ {s}
    /\ room' = room \ {s}
    /\ IF MapHas(players, s)
       THEN /\ players' = MapDelete(players, s)
            /\ votes' = MapDelete(votes, s)
            /\ emitted' = <<broadcastGameState(room', players', votes', gamePhase)>>
       ELSE /\ emitted' = <<>>
            /\ UNCHANGED <<players, votes>>
    /\ UNCHANGED <<server, nextSocket, gamePhase, pendingTimers>>
    /\ Delivered

Next1 ==
    \/ \E s \in SocketIds, playerName \in NameInputs : JoinGame1(s, playerName)
    \/ \E s \in SocketIds : StartVoting1(s)
    \/ \E s \in SocketIds, vote \in VoteInputs : SubmitVote1(s, vote)
    \/ \E s \in SocketIds : NextRound1(s)
    \/ \E s \in SocketIds : Disconnect1(s)

(***************************************************************************)
(* part_002: reveal deferred by setTimeout(..., 3000)                       *)
(***************************************************************************)
broadcastRoomState(to, ps, vs, phase) ==
    Emit(to, "game-state-update",
         [players   |-> MapValues(ps),
          gamePhase |-> phase,
          votes     |-> IF phase = "results"
                        THEN [null |-> FALSE, entries |-> MapEntries(vs)]
                        ELSE [null |-> TRUE, entries |-> {}]])

\* slip: a repeated join also renames the sender's recorded vote
JoinGame2_RenamesVote(s, playerName) ==
    /\ server = "part_002"
    /\ s \in connected
    /\ lastEvent' = Handled("join-game", s)
    /\ IF Falsy(playerName) \/ playerName.t # "string"
       THEN /\ emitted' = <<>>
            /\ UNCHANGED <<room, players, votes>>
       ELSE /\ players' = MapSet(players, s, Player(s, trim(playerName.v)))
            /\ votes' = IF MapHas(votes, s)
                        THEN MapSet(votes, s, Vote(s, trim(playerName.v), votes[s].vote))
                        ELSE votes
            /\ room' = room \cup {s}
            /\ emitted' = <<broadcastRoomState(room', players', votes', gamePhase)>>
    /\ UNCHANGED <<server, nextSocket, connected, gamePhase, pendingTimers>>
    /\ Delivered

JoinGame2(s, playerName) ==
    /\ server = "part_002"
    /\ s \in connected
    /\ lastEvent' = Handled("join-game", s)
    /\ IF Falsy(playerName) \/ playerName.t # "string"
       THEN /\ emitted' = <<>>
            /\ UNCHANGED <<room, players>>
       ELSE /\ players' = MapSet(players, s, Player(s, trim(playerName.v)))
            /\ room' = room \cup {s}
            /\ emitted' = <<broadcastRoomState(room', players', votes, gamePhase)>>
    /\ UNCHANGED <<server, nextSocket, connected, votes, gamePhase,
                   pendingTimers>>
    /\ Delivered

StartVoting2(s) ==
    /\ server = "part_002"
    /\ s \in connected
    /\ lastEvent' = Handled("start-voting", s)
    /\ gamePhase' = "voting"
    /\ votes' = EmptyMap
    /\ emitted' = <<Emit(room, "voting-started", NoData),
                    broadcastRoomState(room, players, votes', gamePhase')>>
    /\ UNCHANGED <<server, nextSocket, connected, room, players,
                   pendingTimers>>
    /\ Delivered

ValidVote2(vote) == vote.t = "number" /\ vote.v \in Deck2

Accepts2(s, vote) ==
    /\ ValidVote2(vote)
    /\ gamePhase = "voting"
    /\ MapHas(players, s)

AllVoted2(vs, ps) == MapSize(vs) = MapSize(ps)

\* slip: a participant's first vote stands, a later one is not stored
SubmitVote2_KeepsFirstVote(s, vote) ==
    /\ server = "part_002"
    /\ s \in connected
    /\ lastEvent' = Handled("submit-vote", s)
    /\ IF ~Accepts2(s, vote)
       THEN /\ emitted' = <<>>
            /\ UNCHANGED <<votes, pendingTimers>>
       ELSE LET player   == MapGet(players, s)
                voteData == Vote(s, player.name, vote.v)
                newVotes == IF MapHas(votes, s) THEN votes
                            ELSE MapSet(votes, s, voteData)
                update   == Emit(room, "vote-count-update",
                                 [votedCount   |-> MapSize(newVotes),
                                  totalPlayers |-> MapSize(players)])
            IN  /\ votes' = newVotes
                /\ IF AllVoted2(newVotes, players)
                   THEN /\ pendingTimers < MaxTimers
                        /\ pendingTimers' = pendingTimers + 1
                        /\ emitted' = <<update, Emit(room, "start-countdown", NoData)>>
                   ELSE /\ pendingTimers' = pendingTimers
                        /\ emitted' = <<update>>
    /\ UNCHANGED <<server, nextSocket, connected, room, players, gamePhase>>
    /\ Delivered

\* setTimeout(callback, 3000): one more callback pending; the phase and the
\* votes are read when it runs, not now
SubmitVote2(s, vote) ==
    /\ server = "part_002"
    /\ s \in connected
    /\ lastEvent' = Handled("submit-vote", s)
    /\ IF ~Accepts2(s, vote)
       THEN /\ emitted' = <<>>
            /\ UNCHANGED <<votes, pendingTimers>>
       ELSE LET player   == MapGet(players, s)
                voteData == Vote(s, player.name, vote.v)
                newVotes == MapSet(votes, s, voteData)
                update   == Emit(room, "vote-count-update",
                                 [votedCount   |-> MapSize(newVotes),
                                  totalPlayers |-> MapSize(players)])
            IN  /\ votes' = newVotes
                /\ IF AllVoted2(newVotes, players)
                   THEN /\ pendingTimers < MaxTimers
                        /\ pendingTimers' = pendingTimers + 1
                        /\ emitted' = <<update, Emit(room, "start-countdown", NoData)>>
                   ELSE /\ pendingTimers' = pendingTimers
                        /\ emitted' = <<update>>
    /\ UNCHANGED <<server, nextSocket, connected, room, players, gamePhase>>
    /\ Delivered

\* slip: the callback gives up when nobody is left in the room
RevealCallback_SkipsEmptyRoom ==
    /\ server = "part_002"
    /\ pendingTimers > 0
    /\ lastEvent' = Handled("timeout", 0)
    /\ pendingTimers' = pendingTimers - 1
    /\ IF players = EmptyMap
       THEN /\ gamePhase' = gamePhase
            /\ emitted' = <<>>
       ELSE /\ gamePhase' = "results"
            /\ emitted' = <<Emit(room, "voting-complete",
                                 VotingResult(MapValues(votes)))>>
    /\ UNCHANGED <<server, nextSocket, connected, room, players, votes>>
    /\ Delivered

\* the oldest pending callback runs (equal delays: timers fire in the order set)
RevealCallback ==
    /\ server = "part_002"
    /\ pendingTimers > 0
    /\ lastEvent' = Handled("timeout", 0)
    /\ pendingTimers' = pendingTimers - 1
    /\ gamePhase' = "results"
    /\ emitted' = <<Emit(room, "voting-complete", VotingResult(MapValues(votes)))>>
    /\ UNCHANGED <<server, nextSocket, connected, room, players, votes>>
    /\ Delivered

NextRound2(s) ==
    /\ server = "part_002"
    /\ s \in connected
    /\ lastEvent' = Handled("next-round", s)
    /\ gamePhase' = "waiting"
    /\ votes' = EmptyMap
    /\ emitted' = <<broadcastRoomState(room, players, votes', gamePhase')>>
    /\ UNCHANGED <<server, nextSocket, connected, room, players,
                   pendingTimers>>
    /\ Delivered

\* slip: a leave that makes the round complete reveals it
Disconnect2_Completes(s) ==
    /\ server = "part_002"
    /\ s \in connected
    /\ lastEvent' = Handled("disconnect", s)
    /\ connected' = connected \ {s}
    /\ room' = room \ {s}
    /\ IF MapHas(players, s)
       THEN /\ players' = MapDelete(players, s)
            /\ votes' = MapDelete(votes, s)
            /\ IF gamePhase = "voting" /\ players' # EmptyMap /\ AllVoted2(votes', players')
               THEN /\ gamePhase' = "results"
                    /\ emitted' = <<Emit(room', "voting-complete",
                                         VotingResult(MapValues(votes')))>>
               ELSE /\ gamePhase' = gamePhase
                    /\ emitted' = <<broadcastRoomState(room', players', votes', gamePhase)>>
       ELSE /\ emitted' = <<>>
            /\ UNCHANGED <<players, votes, gamePhase>>
    /\ UNCHANGED <<server, nextSocket, pendingTimers>>
    /\ Delivered

Disconnect2(s) ==
    /\ server = "part_002"
    /\ s \in connected
    /\ lastEvent' = Handled("disconnect", s)
    /\ connected' = connected \ {s}
    /\ room' = room \ {s}
    /\ IF MapHas(players, s)
       THEN /\ players' = MapDelete(players, s)
            /\ votes' = MapDelete(votes, s)
            /\ emitted' = <<broadcastRoomState(room', players', votes', gamePhase)>>
       ELSE /\ emitted' = <<>>
            /\ UNCHANGED <<players, votes>>
    /\ UNCHANGED <<server, nextSocket, gamePhase, pendingTimers>>
    /\ Delivered

Next2 ==
    \/ \E s \in SocketIds, playerName \in NameInputs : JoinGame2(s, playerName)
    \/ \E s \in SocketIds : StartVoting2(s)
    \/ \E s \in SocketIds, vote \in VoteInputs : SubmitVote2(s, vote)
    \/ RevealCallback
    \/ \E s \in SocketIds : NextRound2(s)
    \/ \E s \in SocketIds : Disconnect2(s)

Next == Connection \/ Next1 \/ Next2

Spec == Init /\ [][Next]_vars

\* the timer always runs a callback that is due; the clients may stay silent
FairSpec == Spec /\ WF_vars(RevealCallback)

\* the server together with the clients behind its sockets
ClientSpec == InitWithClients /\ [][Next]_vars

(***************************************************************************)
(* Properties                                                               *)
(***************************************************************************)
\* the deck the running server is documented to use
ClaimedDeck == IF server = "part_001" THEN {1, 2, 3, 5, 10}
               ELSE {1, 2, 3, 5, 8, 13, 21, 34, 55, 89}

SubmitVoteStep(s, vote) == SubmitVote1(s, vote) \/ SubmitVote2(s, vote)
DisconnectStep(s) == Disconnect1(s) \/ Disconnect2(s)
Emitted(name) == \E i \in 1..Len(emitted) : emitted[i].name = name

\* C1: in both servers every key of the vote mapping is the id of a currently
\* joined participant, so there are never more votes than participants.
VotesBelongToPlayers ==
    /\ MapKeys(votes) \subseteq MapKeys(players)
    /\ MapSize(votes) <= MapSize(players)

\* C1 witness: a participant who had a recorded vote has just left, and votes of
\* the others remain
VoterLeftWithVotesRecorded ==
    /\ lastEvent.name = "disconnect"
    /\ lastEvent.hadVote
    /\ Emitted("game-state-update")
    /\ votes # EmptyMap

\* C2: the phase changes only along waiting -> voting, voting -> results and
\* results -> waiting.
PhaseFollowsCycle ==
    [][gamePhase' # gamePhase =>
          <<gamePhase, gamePhase'>> \in {<<"waiting", "voting">>,
                                         <<"voting", "results">>,
                                         <<"results", "waiting">>}]_vars

\* the documented precondition of submit-vote
SubmitPrecondition(s, vote) ==
    /\ vote.t = "number"
    /\ vote.v \in ClaimedDeck
    /\ gamePhase = "voting"
    /\ s \in MapKeys(players)

\* C3: a submit-vote that violates a precondition (value not a number of the
\* deck, phase not voting, sender not a participant) changes nothing and emits
\* nothing; hence every stored vote value belongs to the server's deck.
InvalidSubmitIsNoOp ==
    /\ [][\A s \in SocketIds, vote \in VoteInputs :
            (SubmitVoteStep(s, vote) /\ ~SubmitPrecondition(s, vote)) =>
                /\ UNCHANGED <<players, votes, gamePhase, pendingTimers, room>>
                /\ emitted' = <<>>]_vars
    /\ [](\A k \in MapKeys(votes) : votes[k].vote \in ClaimedDeck)

\* C3 witness: a participant's submit-vote was dropped while a round with
\* recorded votes runs (the value was not a number of the deck)
SubmitDroppedDuringVoting ==
    /\ lastEvent.name = "submit-vote"
    /\ lastEvent.wasPlayer
    /\ emitted = <<>>
    /\ gamePhase = "voting"
    /\ votes # EmptyMap

\* the step the claims call completion: part_001 reveals at once, part_002
\* announces the countdown and schedules the reveal
CompletedNow ==
    \/ server = "part_001" /\ Emitted("voting-complete")
    \/ server = "part_002" /\ Emitted("start-countdown")

\* C4: completion is triggered by a submit-vote exactly when, right after the
\* vote is recorded, votedCount = totalPlayers and totalPlayers > 0, and by no
\* other operation; in part_001 it is the step that sets the phase to results
\* and emits voting-complete, in part_002 the step that emits start-countdown
\* and schedules the reveal callback.
CompletionIffAllVoted ==
    [][/\ \A s \in SocketIds, vote \in VoteInputs :
            (SubmitVoteStep(s, vote) /\ SubmitPrecondition(s, vote)) =>
                (CompletedNow' <=> (/\ MapSize(votes') = MapSize(players')
                                    /\ MapSize(players') > 0))
       /\ CompletedNow' =>
            \E s \in SocketIds, vote \in VoteInputs :
                SubmitVoteStep(s, vote) /\ SubmitPrecondition(s, vote)
       /\ server = "part_001" =>
            ((gamePhase' = "results" /\ gamePhase # "results") <=> CompletedNow')
       /\ server = "part_002" =>
            ((pendingTimers' = pendingTimers + 1) <=> CompletedNow')]_vars

\* C4 witness: the vote of the last of two participants has completed the round
LastOfTwoVotesCompleted ==
    /\ lastEvent.name = "submit-vote"
    /\ ~lastEvent.hadVote
    /\ CompletedNow
    /\ MapSize(players) = 2
    /\ MapSize(votes) = 2

\* C5: whenever the average is computed the vote mapping is non-empty, so the
\* division sum / count never divides by zero.
AverageNeverDividesByZero ==
    \A i \in 1..Len(emitted) :
        emitted[i].name = "voting-complete" =>
            /\ emitted[i].data.votes # {}
            /\ ~emitted[i].data.average.nan

\* C6: at most one deferred reveal callback is pending at any time.
AtMostOneRevealPending == pendingTimers <= 1

\* C7: in part_002 a scheduled reveal callback is never cancelled: only its own
\* firing removes it, it fires eventually (the timer is fair), and when it
\* fires it sets the phase to results and emits voting-complete, whatever
\* happened in the interim and even with no participant left.  Callbacks fire
\* in the order scheduled, so "whenever one is pending, one fires" brings every
\* scheduled callback to the front and fires it.
RevealAlwaysFires ==
    /\ [][pendingTimers' < pendingTimers => RevealCallback]_vars
    /\ [][RevealCallback =>
            /\ pendingTimers' = pendingTimers - 1
            /\ gamePhase' = "results"
            /\ Len(emitted') = 1
            /\ emitted'[1].name = "voting-complete"
            /\ emitted'[1].data.votes = MapValues(votes)
            /\ UNCHANGED <<players, votes>>]_vars
    /\ [](pendingTimers > 0 => ENABLED RevealCallback)
    /\ (pendingTimers > 0) ~>
            (lastEvent.name = "timeout" /\ gamePhase = "results"
                                        /\ Emitted("voting-complete"))

\* C7 witness: the callback has fired after every participant left
RevealedToEmptyRoom ==
    /\ lastEvent.name = "timeout"
    /\ players = EmptyMap
    /\ connected = {}
    /\ nextSocket > 1
    /\ gamePhase = "results"
    /\ Emitted("voting-complete")

\* C8: the average of every voting-complete payload is sum / count of the
\* payload's votes rounded half-up to one decimal:
\* 10 * average = floor((20 * sum + count) / (2 * count)).
RECURSIVE SumOfVotes(_)
SumOfVotes(vs) ==
    IF vs = {} THEN 0
    ELSE LET v == CHOOSE x \in vs : TRUE IN v.vote + SumOfVotes(vs \ {v})

RoundedMeanOf(result) ==
    LET count == Cardinality(result.votes)
        sum   == SumOfVotes(result.votes)
    IN  /\ count > 0
        /\ ~result.average.nan
        /\ result.average.tenths = (20 * sum + count) \div (2 * count)

AverageIsRoundedMean ==
    \A i \in 1..Len(emitted) :
        emitted[i].name = "voting-complete" => RoundedMeanOf(emitted[i].data)

\* what does hold of the payloads (C8 without the empty reveal of C5): a
\* payload with at least one vote carries the rounded mean
AverageIsRoundedMeanOfSomeVotes ==
    \A i \in 1..Len(emitted) :
        (emitted[i].name = "voting-complete" /\ emitted[i].data.votes # {}) =>
            RoundedMeanOf(emitted[i].data)

\* C9: a disconnect of a joined participant removes exactly that participant
\* and that participant's vote, leaves the phase and everybody else's entries
\* as they were and never triggers completion, even when it leaves every
\* remaining participant with a recorded vote; completion comes only with an
\* accepted submit-vote.
DisconnectOnlyRemovesLeaver ==
    [][/\ \A s \in SocketIds :
            (DisconnectStep(s) /\ s \in MapKeys(players)) =>
                /\ MapKeys(players') = MapKeys(players) \ {s}
                /\ \A k \in MapKeys(players') : players'[k] = players[k]
                /\ MapKeys(votes') = MapKeys(votes) \ {s}
                /\ \A k \in MapKeys(votes') : votes'[k] = votes[k]
                /\ gamePhase' = gamePhase
                /\ pendingTimers' = pendingTimers
                /\ ~Emitted("voting-complete")'
                /\ ~Emitted("start-countdown")'
       /\ CompletedNow' => lastEvent'.name = "submit-vote"]_vars

\* C9 witness: during voting a participant without a vote has left and everyone
\* who remains has voted; the round is still open
LeaveMadeAllVoted ==
    /\ lastEvent.name = "disconnect"
    /\ ~lastEvent.hadVote
    /\ Emitted("game-state-update")
    /\ gamePhase = "voting"
    /\ pendingTimers = 0
    /\ players # EmptyMap
    /\ MapKeys(votes) = MapKeys(players)

\* C10: during voting an accepted submit-vote of a participant who has voted
\* replaces that participant's stored value by the new one and leaves
\* votedCount and every other vote unchanged; the mapping holds one vote per
\* participant, the value submitted last.
ResubmitOverwrites ==
    [][\A s \in SocketIds, vote \in VoteInputs :
            (SubmitVoteStep(s, vote) /\ SubmitPrecondition(s, vote)) =>
                /\ MapKeys(votes') = MapKeys(votes) \cup {s}
                /\ votes'[s].playerId = s
                /\ votes'[s].vote = vote.v
                /\ \A k \in MapKeys(votes) \ {s} : votes'[k] = votes[k]
                /\ s \in MapKeys(votes) => MapSize(votes') = MapSize(votes)]_vars

\* C10 witness: a participant who had voted has voted again while another
\* participant has not voted
RevotedBeforeCompletion ==
    /\ lastEvent.name = "submit-vote"
    /\ lastEvent.hadVote
    /\ Emitted("vote-count-update")
    /\ gamePhase = "voting"
    /\ MapSize(votes) = 1
    /\ MapSize(players) = 2

(***************************************************************************)
(* Starting and ending a round.                                             *)
(***************************************************************************)
StartVotingStep(s) == StartVoting1(s) \/ StartVoting2(s)
NextRoundStep(s) == NextRound1(s) \/ NextRound2(s)
JoinGameStep(s, playerName) == JoinGame1(s, playerName) \/ JoinGame2(s, playerName)

\* the policy of the running server: part_001 wants two participants,
\* part_002 starts a round whenever asked
StartAllowed == server = "part_002" \/ MapSize(players) >= 2

\* the snapshot every member of the room is sent: the participants, the phase,
\* and the votes only in phase results
IsSnapshotOf(ev, ps, vs, phase) ==
    /\ ev.name = "game-state-update"
    /\ ev.to = room
    /\ ev.data.players = MapValues(ps)
    /\ ev.data.gamePhase = phase
    /\ ev.data.votes = IF phase = "results"
                       THEN [null |-> FALSE, entries |-> MapEntries(vs)]
                       ELSE [null |-> TRUE, entries |-> {}]

\* C11: start-voting takes effect exactly when the server's policy allows it
\* (part_001: at least two participants; part_002: always).  When allowed it
\* sets the phase to voting, empties the votes and emits voting-started and
\* then the full snapshot, in that order; when not allowed it leaves the
\* participants, the votes and the phase unchanged and emits nothing.
StartVotingFollowsPolicy ==
    [][\A s \in SocketIds :
          StartVotingStep(s) =>
              IF StartAllowed
              THEN /\ gamePhase' = "voting"
                   /\ votes' = EmptyMap
                   /\ players' = players
                   /\ Len(emitted') = 2
                   /\ emitted'[1] = Emit(room, "voting-started", NoData)
                   /\ IsSnapshotOf(emitted'[2], players, EmptyMap, "voting")
              ELSE /\ UNCHANGED <<players, votes, gamePhase>>
                   /\ emitted' = <<>>]_vars

\* C11 witness: a round has just been started by a participant whose vote of
\* the round before was still recorded; the votes are gone and both events
\* were sent.
StartedOverRecordedVotes ==
    /\ lastEvent.name = "start-voting"
    /\ lastEvent.hadVote
    /\ gamePhase = "voting"
    /\ votes = EmptyMap
    /\ Len(emitted) = 2

\* a start-voting that part_001 refused: one participant, nothing sent
StartRefusedWithOnePlayer ==
    /\ server = "part_001"
    /\ lastEvent.name = "start-voting"
    /\ MapSize(players) = 1
    /\ emitted = <<>>

\* C12: next-round, in whatever phase it arrives, sets the phase to waiting,
\* empties the votes, leaves the participants unchanged and emits exactly one
\* full snapshot to the room.
NextRoundResetsRound ==
    [][\A s \in SocketIds :
          NextRoundStep(s) =>
              /\ gamePhase' = "waiting"
              /\ votes' = EmptyMap
              /\ players' = players
              /\ Len(emitted') = 1
              /\ IsSnapshotOf(emitted'[1], players, EmptyMap, "waiting")]_vars

\* C12 witness: next-round has just discarded recorded votes while a reveal
\* was still pending, that is, in the middle of a round of part_002.
NextRoundDiscardedVotes ==
    /\ lastEvent.name = "next-round"
    /\ lastEvent.hadVote
    /\ pendingTimers > 0
    /\ gamePhase = "waiting"
    /\ votes = EmptyMap
    /\ Emitted("game-state-update")

(***************************************************************************)
(* Names and privacy.                                                       *)
(***************************************************************************)
\* C13: a join whose name is empty after trimming (the empty string or only
\* whitespace) is ignored, so every participant has a non-empty trimmed name.
EveryPlayerHasName ==
    \A k \in MapKeys(players) : players[k].name # <<>>

\* the same claim on the step: such a join inserts nobody and sends nothing
BlankJoinIsIgnored ==
    [][\A s \in SocketIds : \A playerName \in NameInputs :
          /\ JoinGameStep(s, playerName)
          /\ playerName.t = "string"
          /\ trim(playerName.v) = <<>>
          => /\ UNCHANGED <<players, votes, gamePhase>>
             /\ emitted' = <<>>]_vars

\* C14: votes are private until results: every snapshot sent while the phase
\* is waiting or voting carries votes = null, vote-count-update carries only
\* the two counts, and the only event with vote values, voting-complete, is
\* sent with the phase already results.
VotesHiddenUntilResults ==
    \A i \in 1..Len(emitted) :
        LET ev == emitted[i] IN
        /\ ev.name \in {"game-state-update", "voting-started", "vote-count-update",
                        "voting-complete", "start-countdown"}
        /\ ev.name = "game-state-update" =>
              /\ ev.data.gamePhase = gamePhase
              /\ gamePhase \in {"waiting", "voting"} =>
                    ev.data.votes = [null |-> TRUE, entries |-> {}]
        /\ ev.name = "vote-count-update" =>
              DOMAIN ev.data = {"votedCount", "totalPlayers"}
        /\ ev.name \in {"voting-started", "start-countdown"} => ev.data = NoData
        /\ ev.name = "voting-complete" => gamePhase = "results"

\* C14 witness: a snapshot has just been sent in phase voting while votes
\* were recorded (somebody joined or left in the middle of the round).
SnapshotSentOverRecordedVotes ==
    /\ gamePhase = "voting"
    /\ votes # EmptyMap
    /\ lastEvent.name \in {"join-game", "disconnect"}
    /\ Emitted("game-state-update")

(***************************************************************************)
(* The clients and the room.                                                *)
(***************************************************************************)
\* a join that passes the handler's test of its argument
JoinAccepted(playerName) == ~Falsy(playerName) /\ playerName.t = "string"

\* the client behind socket s shows the server's phase and participants
ClientInSync(s) ==
    /\ s \in DOMAIN clients
    /\ clients[s].gameState.gamePhase = gamePhase
    /\ clients[s].gameState.players = MapValues(players)

\* C15: once the events of a server step have been delivered in the order
\* sent, every joined client holds the server's phase and the server's list
\* of participants; the one snapshot an accepted join sends goes to the room
\* with the joiner in it, so a socket that joins receives its own join's
\* snapshot.
ClientsFollowServer ==
    /\ \A s \in room : ClientInSync(s)
    /\ room = MapKeys(players)
    /\ lastEvent.name = "join-game" /\ emitted # <<>> =>
           /\ Len(emitted) = 1
           /\ emitted[1].name = "game-state-update"
           /\ emitted[1].to = room

\* C15 witness: a socket has just joined a room whose round was already
\* running or over, and its client shows that phase and both participants.
LateJoinerCaughtUp ==
    /\ withClients
    /\ lastEvent.name = "join-game"
    /\ ~lastEvent.wasPlayer
    /\ gamePhase # "waiting"
    /\ MapSize(players) = 2
    /\ \A s \in room : ClientInSync(s)

\* C16: an accepted join, a repeated one with another name included, inserts
\* or overwrites only the participant of the sending connection, with
\* connected = true; the phase, the other participants and the whole vote
\* mapping stay as they are, so an earlier vote keeps the name it was cast
\* under.
JoinOnlySetsOwnPlayer ==
    [][\A s \in SocketIds : \A playerName \in NameInputs :
          JoinGameStep(s, playerName) /\ JoinAccepted(playerName) =>
              /\ MapKeys(players') = MapKeys(players) \cup {s}
              /\ players'[s] = [id |-> s, name |-> trim(playerName.v),
                                connected |-> TRUE]
              /\ \A k \in MapKeys(players) \ {s} : players'[k] = players[k]
              /\ votes' = votes
              /\ gamePhase' = gamePhase]_vars

\* C16 witness: a participant with a recorded vote has just joined again, and
\* the vote still carries a name that is no longer the participant's.
VoteKeptOldName ==
    /\ lastEvent.name = "join-game"
    /\ lastEvent.hadVote
    /\ \E k \in MapKeys(votes) : votes[k].playerName # players[k].name

(***************************************************************************)
(* Progress of a round.                                                     *)
(***************************************************************************)
\* a submit-vote the running server records
SubmitAccepted(s, vote) ==
    \/ server = "part_001" /\ Accepts1(s, vote)
    \/ server = "part_002" /\ Accepts2(s, vote)

\* C17: every accepted submit-vote emits exactly one vote-count-update, first
\* of its events (so before voting-complete or start-countdown), whose
\* votedCount and totalPlayers are the sizes of the vote mapping and of the
\* participants right after the vote is recorded, with
\* 1 <= votedCount <= totalPlayers; a voter who had no vote yet raises
\* votedCount by one, a voter who votes again leaves it.
VoteCountReportsProgress ==
    [][\A s \in SocketIds : \A vote \in VoteInputs :
          SubmitVoteStep(s, vote) /\ SubmitAccepted(s, vote) =>
              /\ Len(emitted') >= 1
              /\ {i \in 1..Len(emitted') : emitted'[i].name = "vote-count-update"} = {1}
              /\ emitted'[1].to = room
              /\ emitted'[1].data = [votedCount   |-> MapSize(votes'),
                                     totalPlayers |-> MapSize(players')]
              /\ 1 <= emitted'[1].data.votedCount
              /\ emitted'[1].data.votedCount <= emitted'[1].data.totalPlayers
              /\ emitted'[1].data.votedCount =
                     MapSize(votes) + (IF MapHas(votes, s) THEN 0 ELSE 1)
              /\ emitted'[1].data.totalPlayers = MapSize(players)]_vars

\* C17 witness: the first of two participants has just voted and the room was
\* told 1 of 2, with nothing after it.
FirstOfTwoVotersCounted ==
    /\ lastEvent.name = "submit-vote"
    /\ ~lastEvent.hadVote
    /\ emitted = <<Emit(room, "vote-count-update",
                        [votedCount |-> 1, totalPlayers |-> 2])>>
    /\ MapSize(votes) = 1
    /\ MapSize(players) = 2

(***************************************************************************)
(* The delay before the reveal (part_002).                                  *)
(***************************************************************************)
\* the reveal reads the votes when it fires: its payload is the vote mapping
\* of that moment, whatever was recorded when the countdown was scheduled
RevealReadsVotesAtFiring ==
    [][RevealCallback =>
          emitted' = <<Emit(room, "voting-complete",
                            [votes   |-> MapValues(votes),
                             average |-> Average(MapValues(votes))])>>]_vars

\* while a reveal is pending and the phase is voting, a participant's vote of
\* the deck is recorded, over an earlier one if there is one
VoteRecordedWhileRevealPending ==
    [][\A s \in SocketIds : \A vote \in VoteInputs :
          /\ SubmitVote2(s, vote)
          /\ pendingTimers > 0
          /\ gamePhase = "voting"
          /\ ValidVote2(vote)
          /\ MapHas(players, s)
          => /\ MapHas(votes', s)
             /\ votes'[s].vote = vote.v
             /\ \A k \in MapKeys(votes) \ {s} : MapHas(votes', k) /\ votes'[k] = votes[k]]_vars

\* C18: in part_002, from the scheduling of a reveal callback to its firing
\* the phase remains voting, a submit-vote of a participant is still recorded,
\* and the payload of voting-complete is the vote mapping as it stands when
\* the callback fires.
PhaseVotingUntilReveal ==
    /\ [](pendingTimers > 0 => gamePhase = "voting")
    /\ [][\A s \in SocketIds : \A vote \in VoteInputs :
             /\ SubmitVote2(s, vote)
             /\ pendingTimers > 0
             /\ ValidVote2(vote)
             /\ MapHas(players, s)
             => MapHas(votes', s) /\ votes'[s].vote = vote.v]_vars
    /\ [][RevealCallback =>
             emitted'[1].data.votes = MapValues(votes)]_vars

\* a vote was changed after the countdown started and the reveal, now fired,
\* shows the later value
RevealShowedLateVote ==
    /\ lastEvent.name = "timeout"
    /\ pendingTimers > 0
    /\ votes # EmptyMap
    /\ emitted[1].data.votes = MapValues(votes)

(***************************************************************************)
(* Who may act, and what the clients count.                                 *)
(***************************************************************************)
\* C19: only a current participant can change the room: a start-voting,
\* submit-vote, next-round or disconnect of a connection that is not a
\* participant leaves the phase, the participants and the votes unchanged.
OnlyParticipantsChangeRoom ==
    [][\A s \in SocketIds :
          /\ ~MapHas(players, s)
          /\ \/ StartVotingStep(s)
             \/ NextRoundStep(s)
             \/ DisconnectStep(s)
             \/ \E vote \in VoteInputs : SubmitVoteStep(s, vote)
          => UNCHANGED <<gamePhase, players, votes>>]_vars

\* what does hold: submit-vote and disconnect of a non-participant change
\* nothing
StrangerCannotVoteOrRemove ==
    [][\A s \in SocketIds :
          /\ ~MapHas(players, s)
          /\ \/ DisconnectStep(s)
             \/ \E vote \in VoteInputs : SubmitVoteStep(s, vote)
          => UNCHANGED <<gamePhase, players, votes>>]_vars

\* C20: whenever the phase is voting and the events sent have been delivered
\* in order, the voteCount of every joined client is the server's number of
\* votes and number of participants.
ClientVoteCountMatches ==
    gamePhase = "voting" =>
        \A s \in room :
            clients[s].voteCount = [votedCount   |-> MapSize(votes),
                                    totalPlayers |-> MapSize(players)]

(***************************************************************************)
(* The result of the immediate reveal (part_001).                           *)
(***************************************************************************)
\* the ids of the voters in a voting-complete payload
PlayerIdsOf(result) == {v.playerId : v \in result.votes}

\* C21: in part_001 every voting-complete payload holds exactly one vote of
\* each participant joined at that moment and no other vote (the ids of its
\* votes are the ids of the participants, of which there is at least one),
\* and the phase is results when it is emitted.
ResultCoversParticipants ==
    server = "part_001" =>
        \A i \in 1..Len(emitted) :
            emitted[i].name = "voting-complete" =>
                /\ PlayerIdsOf(emitted[i].data) = MapKeys(players)
                /\ Cardinality(emitted[i].data.votes) = MapSize(players)
                /\ \A k \in MapKeys(players) :
                       Cardinality({v \in emitted[i].data.votes : v.playerId = k}) = 1
                /\ MapKeys(players) # {}
                /\ gamePhase = "results"

\* C21 witness: in part_001 the other participant left during the round and
\* the one who stayed has voted again: the result holds that one vote.
ResultAfterSomeoneLeft ==
    /\ server = "part_001"
    /\ lastEvent.name = "submit-vote"
    /\ lastEvent.hadVote
    /\ MapSize(players) = 1
    /\ Emitted("voting-complete")
    /\ Cardinality(emitted[2].data.votes) = 1

=============================================================================
